---- MODULE Spec2Model ----
(***************************************************************************)
(* Model of agentic-debugger: the MCP tool-call handlers (src/src/index.ts),*)
(* the SessionManager (second half of src/src/index.ts), the Instrumenter   *)
(* (src/src/instrumenter.ts) and the DebugLogServer (src/src/server.ts).    *)
(*                                                                         *)
(* A file's content is kept as the sequence content.split('\n') yields: a   *)
(* non-empty sequence of newline-free lines.  split and join are inverse   *)
(* bijections between strings and such sequences, so <<Blank>> is the empty *)
(* file and a content whose last line is Blank ends with a newline.         *)
(* Every `await` of the handlers is a point where other handlers and        *)
(* events may run; each handler is one action per segment between awaits.   *)
(***************************************************************************)
EXTENDS Integers, Sequences, FiniteSets, TLC

\* ------------------------------------------------------------------ bounds
MaxInstr == 2      \* instrument identifiers handed out in one behaviour
MaxStarts == 2     \* DebugLogServer objects created in one behaviour
MaxLogs == 2       \* lines the log store may hold
MaxLine == 3       \* largest line argument of add_instrument
MaxStops == 1      \* stop_debug_session calls suspended at once
SoloStarts == 1    \* DebugLogServer objects created in a behaviour of Spec
                   \* and of SpecFaults
FewInstr == 1      \* instrument identifiers handed out in a behaviour of
                   \* SpecSessions
FaultLine == 1     \* largest line argument of add_instrument in SpecFaults
MaxReqs == 2       \* HTTP requests the collectors receive in one behaviour
MaxChunk == 4      \* most bytes of a body that arrive as one chunk

\* --------------------------------------------------------------- constants
DefaultPort == 9876
OtherPort == DefaultPort + 1
WorkDir == "/w"
None == 0
NoSession == [id |-> 0, port |-> 0]

FileNames == {"a.js", "b.py"}

\* file.split('.').pop()?.toLowerCase() of the names above
Ext(name) == IF name = "a.js" THEN "js" ELSE IF name = "b.py" THEN "py" ELSE ""

detectLanguage(name) ==
  CASE Ext(name) \in {"ts", "tsx"} -> "typescript"
    [] Ext(name) \in {"js", "jsx", "mjs", "cjs"} -> "javascript"
    [] Ext(name) = "py" -> "python"
    [] OTHER -> "javascript"

\* path.resolve(workingDirectory, file): a relative path (dir ".") is put under
\* the working directory, an absolute one is kept
resolve(wd, p) == IF p.dir = "." THEN [dir |-> wd, name |-> p.name] ELSE p

PathArgs ==
  {[dir |-> ".", name |-> "a.js"], [dir |-> WorkDir, name |-> "a.js"],
   [dir |-> WorkDir, name |-> "b.py"]}
AbsPaths == {[dir |-> WorkDir, name |-> n] : n \in FileNames}
NoPath == [dir |-> "", name |-> ""]

Captures == {<<"x">>}
PortArgs == {0, OtherPort}
LineArgs == 0 .. MaxLine

\* ------------------------------------------------------------------- lines
\* A line of a file.  k: "text" (a line of the user's program, numbered n),
\* "start" and "end" (the region markers of instrument id in dialect d),
\* "body" (line n of the generated block).  v is what the template
\* interpolates into a body line.
Line(k, d, id, n, v) == [k |-> k, d |-> d, id |-> id, n |-> n, v |-> v]

Text(n) == Line("text", "", 0, n, << >>)
Blank == Text(0)
X == Text(1)
Y == Text(2)

\* What the files hold before the first session: "x\n" in a.js and nothing
\* in b.py
InitFiles ==
  {[f \in AbsPaths |-> IF f.name = "a.js" THEN a ELSE b] :
     a \in {<<X, Blank>>}, b \in {<<Blank>>}}

\* ------------------------------------------------- Code Block Generator
Dialect(language) == IF language = "python" THEN "py" ELSE "js"

\* `{ v: typeof v !== 'undefined' ? v : undefined, ... }` or `{}`: one entry per
\* captured name, in order
dataObj(capture) == [i \in 1 .. Len(capture) |-> capture[i]]

\* `${instrument.file}:${instrument.line}`
location(ins) == <<"loc", ins.file.dir, ins.file.name, ins.line>>

\* The twelve lines of the JavaScript template; a body line carries what the
\* template interpolates into it.
generateJSInstrument(port, ins) ==
  << Line("start", "js", ins.id, 1, << >>),
     Line("body", "js", 0, 2, <<"port", port>>),
     Line("body", "js", 0, 3, << >>),
     Line("body", "js", 0, 4, << >>),
     Line("body", "js", 0, 5, << >>),
     Line("body", "js", 0, 6, <<"id", ins.id>>),
     Line("body", "js", 0, 7, location(ins)),
     Line("body", "js", 0, 8, << >>),
     Line("body", "js", 0, 9, <<"data", dataObj(ins.capture)>>),
     Line("body", "js", 0, 10, << >>),
     Line("body", "js", 0, 11, << >>),
     Line("end", "js", ins.id, 12, << >>) >>

\* The fifteen lines of the Python template.
generatePythonInstrument(port, ins) ==
  << Line("start", "py", ins.id, 1, << >>),
     Line("body", "py", 0, 2, << >>),
     Line("body", "py", 0, 3, << >>),
     Line("body", "py", 0, 4, << >>),
     Line("body", "py", 0, 5, <<"port", port>>),
     Line("body", "py", 0, 6, << >>),
     Line("body", "py", 0, 7, <<"id", ins.id>>),
     Line("body", "py", 0, 8, location(ins)),
     Line("body", "py", 0, 9, << >>),
     Line("body", "py", 0, 10, <<"data", dataObj(ins.capture)>>),
     Line("body", "py", 0, 11, << >>),
     Line("body", "py", 0, 12, << >>),
     Line("body", "py", 0, 13, << >>),
     Line("body", "py", 0, 14, << >>),
     Line("end", "py", ins.id, 15, << >>) >>

generateInstrumentCode(port, ins) ==
  CASE ins.language \in {"javascript", "typescript"} -> generateJSInstrument(port, ins)
    [] ins.language = "python" -> generatePythonInstrument(port, ins)
    [] OTHER -> generateJSInstrument(port, ins)

\* ------------------------------------------------------- Region Remover
\* Wildcard of the bulk pattern `claude-debug-[^\n]*`: any identifier
AnyId == 0 - 1

\* `// #region claude-debug-<id>` (or `# region ...`) occurs in the line.
\* Identifiers are `dbg-` plus eight hex digits, so one is never a proper
\* prefix of another and the pattern's prefix match is an equality.
IsStartOf(l, dialect, id) ==
  l.k = "start" /\ l.d = dialect /\ (id = AnyId \/ l.id = id)

\* `// #endregion` (or `# endregion`) occurs in the line: the pattern names no
\* identifier after it.
IsEnd(l, dialect) == l.k = "end" /\ l.d = dialect

\* The least index in lo..Len(ls) holding a start line of id, or 0
RECURSIVE FirstStart(_, _, _, _)
FirstStart(ls, lo, dialect, id) ==
  IF lo > Len(ls) THEN 0
  ELSE IF IsStartOf(ls[lo], dialect, id) THEN lo
  ELSE FirstStart(ls, lo + 1, dialect, id)

\* The least index in lo..Len(ls) holding an end line, or 0
RECURSIVE FirstEnd(_, _, _)
FirstEnd(ls, lo, dialect) ==
  IF lo > Len(ls) THEN 0
  ELSE IF IsEnd(ls[lo], dialect) THEN lo
  ELSE FirstEnd(ls, lo + 1, dialect)

\* content.replace(/<start>[^\n]*\n[\s\S]*?<end>[^\n]*\n?/g, ''): the leftmost
\* start line that a newline follows, lazily up to the first end line after
\* it, that line's rest and the newline after it if there is one; repeated on
\* what follows the match.  A match that runs to the end of the content
\* leaves the newline before the start line, hence a last line Blank.
RECURSIVE StripRegions(_, _, _)
StripRegions(ls, dialect, id) ==
  LET i == FirstStart(ls, 1, dialect, id)
      j == IF i = 0 THEN 0 ELSE FirstEnd(ls, i + 1, dialect)
  IN IF i = 0 \/ j = 0 THEN ls
     ELSE SubSeq(ls, 1, i - 1) \o
          (IF j = Len(ls) THEN <<Blank>>
           ELSE StripRegions(SubSeq(ls, j + 1, Len(ls)), dialect, id))

\* The greatest index in lo..Len(ls) holding an end line, or 0: what a
\* greedy [\s\S]* runs up to
FirstEndGreedy(ls, lo, dialect) ==
  LET Ends == {i \in lo .. Len(ls) : IsEnd(ls[i], dialect)}
  IN IF Ends = {} THEN 0 ELSE CHOOSE i \in Ends : \A j \in Ends : j <= i

\* removeRegion with a greedy pattern: from the start marker of id to the
\* last end marker of the content
removeRegionGreedy(content, id, language) ==
  LET i == FirstStart(content, 1, Dialect(language), id)
      j == IF i = 0 THEN 0 ELSE FirstEndGreedy(content, i + 1, Dialect(language))
  IN IF i = 0 \/ j = 0 THEN content
     ELSE SubSeq(content, 1, i - 1) \o
          (IF j = Len(content) THEN <<Blank>>
           ELSE SubSeq(content, j + 1, Len(content)))

removeRegion(content, id, language) == StripRegions(content, Dialect(language), id)

\* lines.splice(line, 0, ...codeLines): the block put after the line
spliceAfter(lines, line, codeLines) ==
  IF line > Len(lines) THEN lines \o codeLines
  ELSE SubSeq(lines, 1, line) \o codeLines \o SubSeq(lines, line + 1, Len(lines))

\* lines.splice(line - 1, 0, ...codeLines)
splice(lines, line, codeLines) ==
  SubSeq(lines, 1, line - 1) \o codeLines \o SubSeq(lines, line, Len(lines))

\* ---------------------------------------------------------- Log Collector
ReqIds == 1 .. MaxReqs
Methods == {"OPTIONS", "GET", "POST", "PUT"}
Urls == {"/health", "/log", "/other"}

\* A piece of a request body as it travels: t is "open" (the ASCII bytes
\* `{"id":<id>,"timestamp":<number>,"data":"`), "bare" (the ASCII bytes
\* `{"id":<id>,"data":"`, an entry without a timestamp), "close" (the ASCII bytes `"}`), "junk" (the ASCII
\* bytes `not json`), "lead" and "cont" (the first and the second byte of
\* the two-byte UTF-8 encoding of one character).  Decoded text is made of
\* the same ASCII pieces and of the characters "char" (the character those
\* two bytes encode) and "fffd" (U+FFFD, the replacement character).
Piece(t, id) == [t |-> t, id |-> id]

\* The bodies a client of request r may post: an entry whose data is one
\* two-byte character, an entry with empty data, the same cut short, and
\* text that is not JSON
Bodies(r) ==
  { <<Piece("open", r), Piece("lead", 0), Piece("cont", 0), Piece("close", 0)>>,
    <<Piece("open", r), Piece("close", 0)>>,
    <<Piece("open", r)>>,
    <<Piece("junk", 0)>> }

\* chunk.toString(): UTF-8 decoding of the bytes of one chunk.  A lead byte
\* that its continuation byte follows is one character; a lead byte at the
\* end of the chunk and a continuation byte with no lead byte before it are
\* each replaced by U+FFFD.
RECURSIVE toString(_)
toString(chunk) ==
  IF chunk = << >> THEN << >>
  ELSE IF Head(chunk).t = "lead"
    THEN IF Len(chunk) >= 2 /\ chunk[2].t = "cont"
         THEN <<Piece("char", 0)>> \o toString(SubSeq(chunk, 3, Len(chunk)))
         ELSE <<Piece("fffd", 0)>> \o toString(Tail(chunk))
  ELSE IF Head(chunk).t = "cont"
    THEN <<Piece("fffd", 0)>> \o toString(Tail(chunk))
  ELSE <<Head(chunk)>> \o toString(Tail(chunk))

\* A parser that takes a body cut short for the entry it begins
JSONParseLenient(body) ==
  IF Len(body) >= 1 /\ body[1].t \in {"open", "bare"}
  THEN [ok |-> TRUE, id |-> body[1].id, timestamp |-> body[1].t = "open",
        data |-> << >>]
  ELSE [ok |-> FALSE, id |-> 0, timestamp |-> FALSE, data |-> << >>]

\* JSON.parse(body): of the texts above the valid ones are `{"id":<id>,
\* "timestamp":<number>,"data":"<characters>"}` and the same without the
\* timestamp; the others make it throw.  timestamp tells whether the entry
\* has a numeric timestamp.
JSONParse(body) ==
  IF /\ Len(body) >= 2
     /\ body[1].t \in {"open", "bare"}
     /\ body[Len(body)].t = "close"
     /\ \A i \in 2 .. Len(body) - 1 : body[i].t \in {"char", "fffd"}
  THEN [ok |-> TRUE, id |-> body[1].id, timestamp |-> body[1].t = "open",
        data |-> [i \in 1 .. Len(body) - 2 |-> body[i + 1].t]]
  ELSE [ok |-> FALSE, id |-> 0, timestamp |-> FALSE, data |-> << >>]

\* The line writeLog appends: JSON.stringify({...entry, receivedAt: Date.now()})
logLine(entry) ==
  [id |-> entry.id, timestamp |-> entry.timestamp, data |-> entry.data,
   receivedAt |-> TRUE]

\* A body posted by a client other than a generated block: an entry that has
\* no timestamp
ForeignBodies(r) == { <<Piece("bare", r), Piece("close", 0)>> }

\* The format arguments of read_debug_logs: absent (pretty) or raw
Formats == {"", "raw"}

\* What read_debug_logs makes of the content of debug.log: the lines it
\* returns, or the exception `new Date(entry.timestamp).toISOString()`
\* throws in the pretty format for an entry without a numeric timestamp
readDebugLogs(format, logs) ==
  IF logs = << >> THEN [isError |-> FALSE, msg |-> "no-logs", lines |-> << >>]
  ELSE IF format = "raw" THEN [isError |-> FALSE, msg |-> "", lines |-> logs]
  ELSE IF \E i \in 1 .. Len(logs) : ~logs[i].timestamp
    THEN [isError |-> TRUE, msg |-> "Invalid time value", lines |-> << >>]
  ELSE [isError |-> FALSE, msg |-> "", lines |-> logs]

NoRequest == [st |-> "idle", srv |-> 0, todo |-> << >>, sent |-> << >>,
              body |-> << >>, status |-> 0, reply |-> 0]

\* handleRequest without the preflight branch
handleRequestNoPreflight(method, url, port) ==
  IF method = "GET" /\ url = "/health" THEN [status |-> 200, reply |-> port]
  ELSE IF method = "POST" /\ url = "/log" THEN [status |-> 0, reply |-> 0]
  ELSE [status |-> 404, reply |-> 0]

\* handleRequest up to its return: the status it answers with at once (0 when
\* it waits for the body) and the port it puts into the answer
handleRequest(method, url, port) ==
  IF method = "OPTIONS" THEN [status |-> 204, reply |-> 0]
  ELSE IF method = "GET" /\ url = "/health" THEN [status |-> 200, reply |-> port]
  ELSE IF method = "POST" /\ url = "/log" THEN [status |-> 0, reply |-> 0]
  ELSE [status |-> 404, reply |-> 0]

\* ------------------------------------------------------------------- state
VARIABLES
  session,       \* SessionManager.session: NoSession or [id, port]
  registry,      \* session.instruments: the Map's values in insertion order
  mserver,       \* SessionManager.server: None or the index of a DebugLogServer
  instrumenter,  \* index.ts `instrumenter`: None or the port it was built with
  servers,       \* every DebugLogServer created: [port, st]
  stops,         \* stop_debug_session handlers suspended in `await server.stop()`:
                 \* the server each waits for and its local `instruments`
  files,         \* content of each file on disk
  fstatus,       \* "ok", "missing" (existsSync is false) or "readonly"
  logStore,      \* lines of debug.log
  busyPorts,     \* ports that other processes listen on
  reqs,          \* the HTTP requests the collectors have received
  nextId,        \* instrument identifiers handed out so far, plus one
  result         \* what the tool call that returned last returned

vars == <<session, registry, mserver, instrumenter, servers, stops, files,
          fstatus, logStore, busyPorts, reqs, nextId, result>>

Result(op, isError, msg, n) == [op |-> op, isError |-> isError, msg |-> msg, n |-> n]

ServerIds == 1 .. MaxStarts

Init ==
  /\ session = NoSession
  /\ registry = << >>
  /\ mserver = None
  /\ instrumenter = None
  /\ servers = [k \in ServerIds |-> [port |-> 0, st |-> "unused"]]
  /\ stops = << >>
  /\ files \in InitFiles
  /\ fstatus = [f \in AbsPaths |-> "ok"]
  /\ logStore = << >>
  /\ busyPorts \in {{}, {OtherPort}}
  /\ reqs = [r \in ReqIds |-> NoRequest]
  /\ nextId = 1
  /\ result = Result("none", FALSE, "", 0)

\* ------------------------------------------------------------ Instrumenter
\* addToFile with the range check written `line > lines.length`: the line
\* after the last one is refused
addToFileNoAppend(fc, fs, port, ins) ==
  IF fs[ins.file] = "missing" THEN [files |-> fc, err |-> "not-found"]
  ELSE IF ins.line < 1 \/ ins.line > Len(fc[ins.file])
    THEN [files |-> fc, err |-> "out-of-range"]
  ELSE IF fs[ins.file] = "readonly" THEN [files |-> fc, err |-> "EACCES"]
  ELSE [files |-> [fc EXCEPT ![ins.file] =
                     splice(@, ins.line, generateInstrumentCode(port, ins))],
        err |-> ""]

\* Instrumenter.addInstrument on the disk (fc, fs): the new contents and the
\* error thrown, "" when none
addToFile(fc, fs, port, ins) ==
  IF fs[ins.file] = "missing" THEN [files |-> fc, err |-> "not-found"]
  ELSE IF ins.line < 1 \/ ins.line > Len(fc[ins.file]) + 1
    THEN [files |-> fc, err |-> "out-of-range"]
  ELSE IF fs[ins.file] = "readonly" THEN [files |-> fc, err |-> "EACCES"]
  ELSE [files |-> [fc EXCEPT ![ins.file] =
                     splice(@, ins.line, generateInstrumentCode(port, ins))],
        err |-> ""]

\* removeFromFile throwing when the file holds no region of the instrument
removeFromFileStrict(fc, fs, ins) ==
  IF fs[ins.file] = "missing" THEN [files |-> fc, err |-> ""]
  ELSE LET newContent == removeRegion(fc[ins.file], ins.id, ins.language)
       IN IF newContent = fc[ins.file] THEN [files |-> fc, err |-> "not-present"]
          ELSE IF fs[ins.file] = "readonly" THEN [files |-> fc, err |-> "EACCES"]
          ELSE [files |-> [fc EXCEPT ![ins.file] = newContent], err |-> ""]

\* Instrumenter.removeInstrument on the disk (fc, fs)
removeFromFile(fc, fs, ins) ==
  IF fs[ins.file] = "missing" THEN [files |-> fc, err |-> ""]
  ELSE LET newContent == removeRegion(fc[ins.file], ins.id, ins.language)
       IN IF newContent = fc[ins.file] THEN [files |-> fc, err |-> ""]
          ELSE IF fs[ins.file] = "readonly" THEN [files |-> fc, err |-> "EACCES"]
          ELSE [files |-> [fc EXCEPT ![ins.file] = newContent], err |-> ""]

\* `for (const instrument of instruments) instrumenter.removeInstrument(...)`:
\* the contents after the loop, the error that ended it, and how many
\* instruments it got through
RECURSIVE removeEach(_, _, _, _)
removeEach(fc, fs, list, done) ==
  IF done = Len(list) THEN [files |-> fc, err |-> "", done |-> done]
  ELSE LET r == removeFromFile(fc, fs, list[done + 1])
       IN IF r.err # "" THEN [files |-> r.files, err |-> r.err, done |-> done]
          ELSE removeEach(r.files, fs, list, done + 1)

\* content.match(pattern).length for the wildcard pattern of a dialect: the
\* matches are those StripRegions deletes
RECURSIVE CountRegions(_, _)
CountRegions(ls, dialect) ==
  LET i == FirstStart(ls, 1, dialect, AnyId)
      j == IF i = 0 THEN 0 ELSE FirstEnd(ls, i + 1, dialect)
  IN IF i = 0 \/ j = 0 THEN 0
     ELSE 1 + (IF j = Len(ls) THEN 0
               ELSE CountRegions(SubSeq(ls, j + 1, Len(ls)), dialect))

\* Instrumenter.removeAllInstrumentsFromFile on the disk (fc, fs): the
\* JavaScript pattern first, the Python pattern on what it left
removeAllInstrumentsFromFile(fc, fs, file) ==
  IF fs[file] = "missing" THEN [files |-> fc, err |-> "", count |-> 0]
  ELSE LET content == fc[file]
           afterJS == StripRegions(content, "js", AnyId)
           newContent == StripRegions(afterJS, "py", AnyId)
           count == CountRegions(content, "js") + CountRegions(afterJS, "py")
       IN IF count = 0 THEN [files |-> fc, err |-> "", count |-> 0]
          ELSE IF fs[file] = "readonly" THEN [files |-> fc, err |-> "EACCES", count |-> 0]
          ELSE [files |-> [fc EXCEPT ![file] = newContent], err |-> "", count |-> count]

\* ---------------------------------------------------------- SessionManager
isActive == session # NoSession

getInstruments == IF session = NoSession THEN << >> ELSE registry

getInstrumentsByFile(file) ==
  LET resolvedFile == resolve(WorkDir, file)
      Same(i) == i.file = resolvedFile
  IN SelectSeq(getInstruments, Same)

\* SessionManager.addInstrument's new Instrument
newInstrument(file, line, capture) ==
  [id |-> nextId, file |-> resolve(WorkDir, file), line |-> line,
   language |-> detectLanguage(file.name), capture |-> capture]

\* listen(port) succeeds when neither another process nor a collector of this
\* process listens on the port
PortFree(port) ==
  /\ port \notin busyPorts
  /\ \A k \in ServerIds : ~(servers[k].st = "listening" /\ servers[k].port = port)

\* ------------------------------------------------------------- tool calls
\* start_debug_session up to `await this.server.start()`: the guard, the log
\* reset, the new DebugLogServer and its listen() call
StartCall(portArg) ==
  LET port == IF portArg = 0 THEN DefaultPort ELSE portArg
  IN IF session # NoSession
     THEN /\ result' = Result("start", TRUE, "already-active", 0)
          /\ UNCHANGED <<session, registry, mserver, instrumenter, servers, stops,
                         files, fstatus, busyPorts, reqs, logStore, nextId>>
     ELSE /\ \E k \in ServerIds :
               /\ servers[k].st = "unused"
               /\ \A j \in ServerIds : j < k => servers[j].st # "unused"
               /\ servers' = [servers EXCEPT ![k] = [port |-> port, st |-> "binding"]]
               /\ mserver' = k
          /\ logStore' = << >>
          /\ UNCHANGED <<session, registry, instrumenter, stops, files, fstatus, busyPorts, reqs,
                         nextId, result>>

\* The listen callback of server k, and with it the rest of startSession and
\* of the start_debug_session handler
ListenDone(k) ==
  /\ servers[k].st = "binding"
  /\ PortFree(servers[k].port)
  /\ servers' = [servers EXCEPT ![k].st = "listening"]
  /\ session' = [id |-> k, port |-> servers[k].port]
  /\ registry' = << >>
  /\ instrumenter' = servers[k].port
  /\ result' = Result("start", FALSE, "", 0)
  /\ UNCHANGED <<mserver, stops, files, fstatus, busyPorts, reqs, logStore, nextId>>

\* The 'error' event of server k (its port is taken): startSession throws
ListenError(k) ==
  /\ servers[k].st = "binding"
  /\ ~PortFree(servers[k].port)
  /\ servers' = [servers EXCEPT ![k].st = "failed"]
  /\ result' = Result("start", TRUE, "EADDRINUSE", 0)
  /\ UNCHANGED <<session, registry, mserver, instrumenter, stops, files, fstatus, busyPorts, reqs,
                 logStore, nextId>>

\* What stopSession and the handler do once `await this.server.stop()` is over
StopFinish(n) ==
  /\ mserver' = None
  /\ session' = NoSession
  /\ registry' = << >>
  /\ instrumenter' = None
  /\ result' = Result("stop", FALSE, "", n)

\* stop_debug_session answering an inactive session with an error
StopCallStrict ==
  IF ~isActive
  THEN /\ result' = Result("stop", TRUE, "no-session", 0)
       /\ UNCHANGED <<session, registry, mserver, instrumenter, servers, stops,
                      files, fstatus, busyPorts, reqs, logStore, nextId>>
  ELSE LET instruments == getInstruments
           r == IF instrumenter # None
                THEN removeEach(files, fstatus, instruments, 0)
                ELSE [files |-> files, err |-> "", done |-> 0]
       IN /\ files' = r.files
          /\ UNCHANGED <<fstatus, busyPorts, reqs, logStore, nextId>>
          /\ IF r.err # ""
             THEN /\ result' = Result("stop", TRUE, r.err, 0)
                  /\ UNCHANGED <<session, registry, mserver, instrumenter, servers, stops>>
             ELSE IF mserver = None \/ servers[mserver].st = "closed"
             THEN /\ StopFinish(Len(instruments))
                  /\ UNCHANGED <<servers, stops>>
             ELSE /\ Len(stops) < MaxStops
                  /\ servers' = [servers EXCEPT ![mserver].st = "closing"]
                  /\ stops' = Append(stops, [srv |-> mserver, instruments |-> instruments])
                  /\ UNCHANGED <<session, registry, mserver, instrumenter, result>>

\* stop_debug_session up to `await this.server.stop()`
StopCall ==
  IF ~isActive
  THEN /\ result' = Result("stop", FALSE, "no-session", 0)
       /\ UNCHANGED <<session, registry, mserver, instrumenter, servers, stops,
                      files, fstatus, busyPorts, reqs, logStore, nextId>>
  ELSE LET instruments == getInstruments
           r == IF instrumenter # None
                THEN removeEach(files, fstatus, instruments, 0)
                ELSE [files |-> files, err |-> "", done |-> 0]
       IN /\ files' = r.files
          /\ UNCHANGED <<fstatus, busyPorts, reqs, logStore, nextId>>
          /\ IF r.err # ""
             THEN /\ result' = Result("stop", TRUE, r.err, 0)
                  /\ UNCHANGED <<session, registry, mserver, instrumenter, servers, stops>>
             ELSE IF mserver = None \/ servers[mserver].st = "closed"
             THEN /\ StopFinish(Len(instruments))
                  /\ UNCHANGED <<servers, stops>>
             ELSE /\ Len(stops) < MaxStops
                  /\ servers' = [servers EXCEPT ![mserver].st = "closing"]
                  /\ stops' = Append(stops, [srv |-> mserver, instruments |-> instruments])
                  /\ UNCHANGED <<session, registry, mserver, instrumenter, result>>

\* The callback of server.close(): the http server of k has closed
CloseDone(k) ==
  /\ servers[k].st = "closing"
  /\ \A r \in ReqIds : ~(reqs[r].st = "open" /\ reqs[r].srv = k)
  /\ servers' = [servers EXCEPT ![k].st = "closed"]
  /\ UNCHANGED <<session, registry, mserver, instrumenter, stops, files, fstatus, busyPorts, reqs,
                 logStore, nextId, result>>

\* The oldest suspended stop_debug_session resumes after its await
StopResume ==
  /\ stops # << >>
  /\ servers[Head(stops).srv].st = "closed"
  /\ StopFinish(Len(Head(stops).instruments))
  /\ stops' = Tail(stops)
  /\ UNCHANGED <<servers, files, fstatus, busyPorts, reqs, logStore, nextId>>

\* add_instrument(file, line, capture); file = NoPath when the argument is absent
AddInstrumentCall(file, line, capture) ==
  IF ~isActive \/ instrumenter = None
  THEN /\ result' = Result("add", TRUE, "no-session", 0)
       /\ UNCHANGED <<session, registry, mserver, instrumenter, servers, stops,
                      files, fstatus, busyPorts, reqs, logStore, nextId>>
  ELSE IF file = NoPath \/ line = 0
  THEN /\ result' = Result("add", TRUE, "missing-params", 0)
       /\ UNCHANGED <<session, registry, mserver, instrumenter, servers, stops,
                      files, fstatus, busyPorts, reqs, logStore, nextId>>
  ELSE LET instrument == newInstrument(file, line, capture)
           r == addToFile(files, fstatus, instrumenter, instrument)
       IN /\ nextId <= MaxInstr
          /\ nextId' = nextId + 1
          /\ registry' = Append(registry, instrument)
          /\ files' = r.files
          /\ result' = Result("add", r.err # "", r.err, 0)
          /\ UNCHANGED <<session, mserver, instrumenter, servers, stops, fstatus, busyPorts, reqs, logStore>>

\* The registry without the first `done` instruments of `list`
withoutFirst(reg, list, done) ==
  LET Gone == {list[i].id : i \in 1 .. done}
      Kept(i) == i.id \notin Gone
  IN SelectSeq(reg, Kept)

\* remove_instruments(file); file = NoPath when the argument is absent
RemoveInstrumentsCall(file) ==
  IF ~isActive \/ instrumenter = None
  THEN /\ result' = Result("remove", TRUE, "no-session", 0)
       /\ UNCHANGED <<session, registry, mserver, instrumenter, servers, stops,
                      files, fstatus, busyPorts, reqs, logStore, nextId>>
  ELSE LET instruments == IF file # NoPath THEN getInstrumentsByFile(file)
                          ELSE getInstruments
           r == removeEach(files, fstatus, instruments, 0)
       IN /\ files' = r.files
          /\ registry' = IF file # NoPath THEN withoutFirst(registry, instruments, r.done)
                         ELSE IF r.err = "" THEN << >> ELSE registry
          /\ result' = Result("remove", r.err # "", r.err,
                              IF r.err = "" THEN Len(instruments) ELSE 0)
          /\ UNCHANGED <<session, mserver, instrumenter, servers, stops, fstatus, busyPorts, reqs,
                         logStore, nextId>>

\* list_instruments guarded like its neighbours: an error while inactive
ListInstrumentsGuarded ==
  /\ result' = IF ~isActive THEN Result("list", TRUE, "no-session", 0)
               ELSE Result("list", FALSE, "", Len(getInstruments))
  /\ UNCHANGED <<session, registry, mserver, instrumenter, servers, stops, files,
                 fstatus, busyPorts, reqs, logStore, nextId>>

\* list_instruments
ListInstrumentsCall ==
  /\ result' = Result("list", FALSE, "", Len(getInstruments))
  /\ UNCHANGED <<session, registry, mserver, instrumenter, servers, stops, files,
                 fstatus, busyPorts, reqs, logStore, nextId>>

\* read_debug_logs(format)
ReadLogsCall(format) ==
  /\ result' = IF ~isActive THEN Result("read", TRUE, "no-session", 0)
               ELSE LET r == readDebugLogs(format, logStore)
                    IN Result("read", r.isError, r.msg, Len(r.lines))
  /\ UNCHANGED <<session, registry, mserver, instrumenter, servers, stops, files,
                 fstatus, busyPorts, reqs, logStore, nextId>>

\* clear_debug_logs that empties the registry as well
ClearLogsAndRegistry ==
  /\ result' = IF ~isActive THEN Result("clear", TRUE, "no-session", 0)
               ELSE Result("clear", FALSE, "", 0)
  /\ logStore' = IF ~isActive THEN logStore ELSE << >>
  /\ registry' = IF ~isActive THEN registry ELSE << >>
  /\ UNCHANGED <<session, mserver, instrumenter, servers, stops, files,
                 fstatus, busyPorts, reqs, nextId>>

\* clear_debug_logs
ClearLogsCall ==
  /\ result' = IF ~isActive THEN Result("clear", TRUE, "no-session", 0)
               ELSE Result("clear", FALSE, "", 0)
  /\ logStore' = IF ~isActive THEN logStore ELSE << >>
  /\ UNCHANGED <<session, registry, mserver, instrumenter, servers, stops, files,
                 fstatus, busyPorts, reqs, nextId>>

\* ------------------------------------------------------------ environment
\* POST /log with a JSON body, answered by the listening collector k:
\* writeLog appends one line to debug.log
PostLog(k) ==
  /\ servers[k].st = "listening"
  /\ Len(logStore) < MaxLogs
  /\ logStore' = Append(logStore, logLine([id |-> 1, timestamp |-> TRUE, data |-> << >>]))
  /\ UNCHANGED <<session, registry, mserver, instrumenter, servers, stops, files,
                 fstatus, busyPorts, reqs, nextId, result>>

\* Collector k receives a request; a client of POST /log has picked the body
\* it is going to send
Request(r, k, method, url, body) ==
  /\ reqs[r].st = "idle"
  /\ \A q \in ReqIds : q < r => reqs[q].st # "idle"
  /\ servers[k].st = "listening"
  /\ LET a == handleRequest(method, url, servers[k].port)
     IN reqs' = [reqs EXCEPT ![r] =
                   IF a.status = 0
                   THEN [NoRequest EXCEPT !.st = "open", !.srv = k, !.todo = body]
                   ELSE [NoRequest EXCEPT !.st = "done", !.srv = k,
                                          !.status = a.status, !.reply = a.reply]]
  /\ UNCHANGED <<session, registry, mserver, instrumenter, servers, stops, files,
                 fstatus, logStore, busyPorts, nextId, result>>

\* DataChunk with `body` kept in one place for all requests: the chunk is
\* added to the body of every request that is open
DataChunkShared(r, n) ==
  /\ reqs[r].st = "open"
  /\ n \in 1 .. Len(reqs[r].todo)
  /\ LET chunk == SubSeq(reqs[r].todo, 1, n)
     IN reqs' = [q \in ReqIds |->
                  IF q = r
                  THEN [reqs[q] EXCEPT !.todo = SubSeq(@, n + 1, Len(@)),
                                       !.sent = @ \o chunk,
                                       !.body = @ \o toString(chunk)]
                  ELSE IF reqs[q].st = "open"
                  THEN [reqs[q] EXCEPT !.body = @ \o toString(chunk)]
                  ELSE reqs[q]]
  /\ UNCHANGED <<session, registry, mserver, instrumenter, servers, stops, files,
                 fstatus, logStore, busyPorts, nextId, result>>

\* The 'data' event of request r: the next n bytes of its body arrive as one
\* chunk, `body += chunk.toString()`
DataChunk(r, n) ==
  /\ reqs[r].st = "open"
  /\ n \in 1 .. Len(reqs[r].todo)
  /\ LET chunk == SubSeq(reqs[r].todo, 1, n)
     IN reqs' = [reqs EXCEPT ![r].todo = SubSeq(@, n + 1, Len(@)),
                             ![r].sent = @ \o chunk,
                             ![r].body = @ \o toString(chunk)]
  /\ UNCHANGED <<session, registry, mserver, instrumenter, servers, stops, files,
                 fstatus, logStore, busyPorts, nextId, result>>

\* The 'end' event of request r, whose body has arrived whole
EndBody(r) ==
  /\ reqs[r].st = "open"
  /\ reqs[r].todo = << >>
  /\ LET logEntry == JSONParse(reqs[r].body)
     IN IF logEntry.ok
        THEN /\ logStore' = Append(logStore, logLine(logEntry))
             /\ reqs' = [reqs EXCEPT ![r].st = "done", ![r].status = 200]
        ELSE /\ logStore' = logStore
             /\ reqs' = [reqs EXCEPT ![r].st = "done", ![r].status = 400]
  /\ UNCHANGED <<session, registry, mserver, instrumenter, servers, stops, files,
                 fstatus, busyPorts, nextId, result>>

\* The client of request r gives up: its connection ends before the body
\* has arrived whole, so the 'end' listener never runs
Abort(r) ==
  /\ reqs[r].st = "open"
  /\ reqs[r].todo # << >>
  /\ reqs' = [reqs EXCEPT ![r].st = "done"]
  /\ UNCHANGED <<session, registry, mserver, instrumenter, servers, stops, files,
                 fstatus, logStore, busyPorts, nextId, result>>

\* The user deletes a file
EnvDelete(f) ==
  /\ fstatus[f] # "missing"
  /\ fstatus' = [fstatus EXCEPT ![f] = "missing"]
  /\ files' = [files EXCEPT ![f] = <<Blank>>]
  /\ UNCHANGED <<session, registry, mserver, instrumenter, servers, stops,
                 logStore, busyPorts, reqs, nextId, result>>

\* The user takes the write permission of a file away, or gives it back
EnvChmod(f) ==
  /\ fstatus[f] # "missing"
  /\ fstatus' = [fstatus EXCEPT ![f] = IF @ = "ok" THEN "readonly" ELSE "ok"]
  /\ UNCHANGED <<session, registry, mserver, instrumenter, servers, stops, files,
                 logStore, busyPorts, reqs, nextId, result>>

\* A call of removeAllInstrumentsFromFile(file) on the Instrumenter
RemoveAllCall(file) ==
  /\ instrumenter # None
  /\ LET r == removeAllInstrumentsFromFile(files, fstatus, file)
     IN /\ files' = r.files
        /\ result' = Result("removeAll", r.err # "", r.err, r.count)
  /\ UNCHANGED <<session, registry, mserver, instrumenter, servers, stops,
                 fstatus, logStore, busyPorts, reqs, nextId>>

\* DebugLogServer objects created so far
Started == Cardinality({k \in ServerIds : servers[k].st # "unused"})

\* A start_debug_session call that creates no DebugLogServer beyond the limit
StartWithin(limit, p) == (isActive \/ Started < limit) /\ StartCall(p)

\* An add_instrument call that hands out no identifier beyond the limit
AddWithin(limit, f, l, c) ==
  (~isActive \/ instrumenter = None \/ l = 0 \/ nextId <= limit)
  /\ AddInstrumentCall(f, l, c)

\* Behaviours with one session: every tool call, the collector's events and
\* log posts; the files stay readable and writable
Next ==
  \/ \E p \in PortArgs : StartWithin(SoloStarts, p)
  \/ \E k \in ServerIds : ListenDone(k)
  \/ \E k \in ServerIds : ListenError(k)
  \/ StopCall
  \/ \E k \in ServerIds : CloseDone(k)
  \/ StopResume
  \/ \E f \in PathArgs \cup {NoPath}, l \in LineArgs, c \in Captures :
       AddWithin(MaxInstr, f, l, c)
  \/ \E f \in PathArgs \cup {NoPath} : RemoveInstrumentsCall(f)
  \/ ListInstrumentsCall
  \/ \E fmt \in Formats : ReadLogsCall(fmt)
  \/ ClearLogsCall
  \/ \E k \in ServerIds : PostLog(k)

Spec == Init /\ [][Next]_vars

\* Behaviours with several sessions, overlapping start and stop calls
\* included, and few instruments
NextSessions ==
  \/ \E p \in PortArgs : StartWithin(MaxStarts, p)
  \/ \E k \in ServerIds : ListenDone(k)
  \/ \E k \in ServerIds : ListenError(k)
  \/ StopCall
  \/ \E k \in ServerIds : CloseDone(k)
  \/ StopResume
  \/ \E f \in PathArgs \cup {NoPath}, l \in LineArgs, c \in Captures :
       AddWithin(FewInstr, f, l, c)
  \/ \E f \in PathArgs \cup {NoPath} : RemoveInstrumentsCall(f)
  \/ ListInstrumentsCall
  \/ \E fmt \in Formats : ReadLogsCall(fmt)
  \/ ClearLogsCall
  \/ \E k \in ServerIds : PostLog(k)

SpecSessions == Init /\ [][NextSessions]_vars

\* Behaviours with one session in which the user deletes files and changes
\* their permissions between the tool calls
NextFaults ==
  \/ \E p \in PortArgs : StartWithin(SoloStarts, p)
  \/ \E k \in ServerIds : ListenDone(k)
  \/ \E k \in ServerIds : ListenError(k)
  \/ StopCall
  \/ \E k \in ServerIds : CloseDone(k)
  \/ StopResume
  \/ \E f \in PathArgs, l \in 1 .. FaultLine, c \in Captures :
       AddWithin(MaxInstr, f, l, c)
  \/ \E f \in PathArgs \cup {NoPath} : RemoveInstrumentsCall(f)
  \/ \E f \in AbsPaths : EnvDelete(f)
  \/ \E f \in AbsPaths : EnvChmod(f)

SpecFaults == Init /\ [][NextFaults]_vars

\* Behaviours of one session in which the instruments of a file are removed
\* in bulk
NextBulk ==
  \/ \E p \in PortArgs : StartWithin(SoloStarts, p)
  \/ \E k \in ServerIds : ListenDone(k)
  \/ \E k \in ServerIds : ListenError(k)
  \/ \E f \in PathArgs, l \in LineArgs, c \in Captures : AddWithin(MaxInstr, f, l, c)
  \/ \E f \in AbsPaths : RemoveAllCall(f)

SpecBulk == Init /\ [][NextBulk]_vars

\* Behaviours of one session whose collector receives requests, the bodies
\* arriving chunk by chunk
NextHttp ==
  \/ \E p \in PortArgs : StartWithin(SoloStarts, p)
  \/ \E k \in ServerIds : ListenDone(k)
  \/ \E k \in ServerIds : ListenError(k)
  \/ StopCall
  \/ \E k \in ServerIds : CloseDone(k)
  \/ StopResume
  \/ ClearLogsCall
  \/ \E r \in ReqIds, k \in ServerIds, m \in Methods, u \in Urls :
       \E b \in Bodies(r) : Request(r, k, m, u, b)
  \/ \E f \in PathArgs, l \in 1 .. FaultLine, c \in Captures :
       AddWithin(FewInstr, f, l, c)
  \/ \E r \in ReqIds, n \in 1 .. MaxChunk : DataChunk(r, n)
  \/ \E r \in ReqIds : EndBody(r)

SpecHttp == Init /\ [][NextHttp]_vars

\* Behaviours of one session whose log store is read and cleared while
\* generated blocks and other clients post entries
NextRead ==
  \/ \E p \in PortArgs : StartWithin(SoloStarts, p)
  \/ \E k \in ServerIds : ListenDone(k)
  \/ \E k \in ServerIds : ListenError(k)
  \/ \E f \in PathArgs, l \in 1 .. FaultLine, c \in Captures :
       AddWithin(FewInstr, f, l, c)
  \/ ClearLogsCall
  \/ \E fmt \in Formats : ReadLogsCall(fmt)
  \/ \E r \in ReqIds, k \in ServerIds :
       \E b \in Bodies(r) \cup ForeignBodies(r) : Request(r, k, "POST", "/log", b)
  \/ \E r \in ReqIds, n \in 1 .. MaxChunk : DataChunk(r, n)
  \/ \E r \in ReqIds : EndBody(r)

SpecRead == Init /\ [][NextRead]_vars

\* Behaviours of one session that is stopped while clients post entries.
\* The runtime calls the callback of server.close() once the last connection
\* has ended, and a resolved await resumes; nothing makes a client go on
\* sending or give up.
NextStop ==
  \/ \E p \in PortArgs : StartWithin(SoloStarts, p)
  \/ \E k \in ServerIds : ListenDone(k)
  \/ \E k \in ServerIds : ListenError(k)
  \/ StopCall
  \/ \E k \in ServerIds : CloseDone(k)
  \/ StopResume
  \/ \E r \in ReqIds, k \in ServerIds :
       \E b \in Bodies(r) : Request(r, k, "POST", "/log", b)
  \/ \E r \in ReqIds, n \in 1 .. MaxChunk : DataChunk(r, n)
  \/ \E r \in ReqIds : EndBody(r)
  \/ \E r \in ReqIds : Abort(r)

SpecStop ==
  /\ Init
  /\ [][NextStop]_vars
  /\ WF_vars(\E k \in ServerIds : CloseDone(k))
  /\ WF_vars(StopResume)

\* ------------------------------------------------------------------ claims
IsMarker(l) == l.k \in {"start", "end"}
IsText(l) == l.k = "text"
IsBody(l) == l.k = "body"

\* s is an initial segment of t
IsPrefix(s, t) == Len(s) <= Len(t) /\ SubSeq(t, 1, Len(s)) = s

\* The file holds a start marker of the instrument
RegionPresent(ins) ==
  \E i \in 1 .. Len(files[ins.file]) :
    IsStartOf(files[ins.file][i], Dialect(ins.language), ins.id)

\* C1: for every file content and every valid line L in [1, lineCount + 1],
\* add-instrument at L followed at once by the removal of that instrument
\* leaves the file as it was before the insertion.
C1_RoundTrip ==
  [][\A f \in PathArgs, l \in LineArgs, c \in Captures :
       (AddInstrumentCall(f, l, c) /\ ~result'.isError)
         => removeFromFile(files', fstatus, newInstrument(f, l, c)).files = files]_vars

\* The lines of ls that satisfy none of the marker or body kinds of a block
TextOf(ls) == SelectSeq(ls, IsText)

\* The markers of ls that are not markers of instrument id
OtherMarkers(ls, id) ==
  LET Other(l) == IsMarker(l) /\ l.id # id
  IN SelectSeq(ls, Other)

\* The markers of ls that are markers of instrument id
OwnMarkers(ls, id) ==
  LET Own(l) == IsMarker(l) /\ l.id = id
  IN SelectSeq(ls, Own)

\* C2: after any successful add-instrument calls (nested ones included),
\* removing one instrument by identifier deletes that instrument's markers
\* and body and nothing else: the lines of the program and the markers of
\* the other instruments stay, in order, no marker of the removed instrument
\* is left, and as many body lines go as its block has.
C2_RemovesOnlyItsRegion ==
  \A k \in 1 .. Len(registry) :
    LET ins == registry[k]
        before == files[ins.file]
        after == removeRegion(before, ins.id, ins.language)
        block == generateInstrumentCode(instrumenter, ins)
    IN RegionPresent(ins) =>
         /\ IsPrefix(TextOf(before), TextOf(after))
         /\ OtherMarkers(after, ins.id) = OtherMarkers(before, ins.id)
         /\ OwnMarkers(after, ins.id) = << >>
         /\ Len(SelectSeq(after, IsBody)) = Len(SelectSeq(before, IsBody)) - (Len(block) - 2)

\* No file holds a start or end marker
NoMarkers == \A f \in AbsPaths : SelectSeq(files[f], IsMarker) = << >>

\* C3: once stop-session completes, no file holds a start or end marker, the
\* registry is empty and the session is inactive.  Stated of the stops that
\* removed every instrument of the registry: those during whose await no
\* other call changed the registry.
C3_StopRemovesAll ==
  [][(StopResume /\ Head(stops).instruments = registry)
       => (NoMarkers /\ registry = << >> /\ ~isActive)']_vars

\* C4: a stop-session during which the removal of one instrument's code fails
\* still shuts the collector down and ends inactive with an empty registry:
\* whatever stop-session returned, the session is inactive afterwards.
C4_StopIsBestEffort ==
  result.op = "stop" =>
    /\ ~isActive
    /\ registry = << >>
    /\ \A k \in ServerIds : servers[k].st # "listening"

\* C5: a start-session step taken while a session is active fails and leaves
\* the session, the registry, the collector and the log store as they are; a
\* start-session that succeeds yields an active session with an empty log
\* store and an empty registry.
C5_StartGuard ==
  [][/\ \A p \in PortArgs :
          (isActive /\ StartCall(p)) =>
            /\ result'.isError
            /\ UNCHANGED <<session, registry, mserver, instrumenter, servers, logStore>>
     /\ \A k \in ServerIds :
          ListenDone(k) =>
            /\ ~isActive
            /\ isActive'
            /\ logStore' = << >>
            /\ registry' = << >>]_vars

\* C6: at most one Log Collector is listening, also when start-session calls
\* overlap.
C6_OneCollector == Cardinality({k \in ServerIds : servers[k].st = "listening"}) <= 1

\* Every instrument of the registry has its region in its file
AllPresent == \A k \in 1 .. Len(registry) : RegionPresent(registry[k])

\* C7: after an add-instrument call every instrument of the registry has its
\* region in its file, and a call that fails leaves the registry unchanged.
C7_RegistryMatchesFiles ==
  [][\A f \in PathArgs \cup {NoPath}, l \in LineArgs, c \in Captures :
       AddInstrumentCall(f, l, c) =>
         /\ result'.isError => registry' = registry
         /\ AllPresent => AllPresent']_vars

\* An add-instrument call was let through with an active session
AddHandled(f, l, c) == isActive /\ instrumenter # None /\ AddInstrumentCall(f, l, c)

\* C8: add-instrument with line 0 or with a line above (line count + 1) fails
\* with an error result and changes no file; every line in
\* [1, line count + 1] is accepted and the block is put into the file at that
\* line.  The line count is that of content.split('\n').
C8_LineRange ==
  [][\A f \in PathArgs, l \in LineArgs, c \in Captures :
       AddHandled(f, l, c) =>
         LET ins == newInstrument(f, l, c)
             lineCount == Len(files[ins.file])
         IN /\ (l = 0 \/ l > lineCount + 1) => (result'.isError /\ files' = files)
            /\ (l >= 1 /\ l <= lineCount + 1) =>
                 /\ ~result'.isError
                 /\ Len(files'[ins.file]) > lineCount
                 /\ IsStartOf(files'[ins.file][l], Dialect(ins.language), ins.id)]_vars

\* C8 witness: a line above (line count + 1) was just refused, in a state in
\* which an earlier call at an accepted line has put its block into a file
C8_Witness == result = Result("add", TRUE, "out-of-range", 0) /\ ~NoMarkers

\* The places of the markers of instrument ins in its file
StartsOf(ins) ==
  {i \in 1 .. Len(files[ins.file]) :
     files[ins.file][i].k = "start" /\ files[ins.file][i].id = ins.id}
EndsOf(ins) ==
  {i \in 1 .. Len(files[ins.file]) :
     files[ins.file][i].k = "end" /\ files[ins.file][i].id = ins.id}

\* C9: for every live instrument whose code is in a file, the file holds one
\* start marker and one end marker of that instrument, and from the one to
\* the other exactly the block generated for it at the session's port.
C9_RegionIsGeneratedBlock ==
  \A k \in 1 .. Len(registry) :
    LET ins == registry[k]
    IN RegionPresent(ins) =>
         /\ Cardinality(StartsOf(ins)) = 1
         /\ Cardinality(EndsOf(ins)) = 1
         /\ \A i \in StartsOf(ins), j \in EndsOf(ins) :
              SubSeq(files[ins.file], i, j) = generateInstrumentCode(session.port, ins)

\* C10: while the session is inactive, add-instrument, remove-instruments,
\* read-logs and clear-logs return a failure and change no file, no registry
\* entry and no log line; list-instruments returns an empty success.
C10_InactiveCalls ==
  [][~isActive =>
       /\ \A f \in PathArgs \cup {NoPath}, l \in LineArgs, c \in Captures :
            AddInstrumentCall(f, l, c) =>
              result'.isError /\ UNCHANGED <<files, registry, logStore>>
       /\ \A f \in PathArgs \cup {NoPath} :
            RemoveInstrumentsCall(f) =>
              result'.isError /\ UNCHANGED <<files, registry, logStore>>
       /\ \A fmt \in Formats :
            ReadLogsCall(fmt) => result'.isError /\ UNCHANGED <<files, registry, logStore>>
       /\ ClearLogsCall => result'.isError /\ UNCHANGED <<files, registry, logStore>>
       /\ ListInstrumentsCall =>
            result' = Result("list", FALSE, "", 0)
            /\ UNCHANGED <<files, registry, logStore>>]_vars

\* C10 witness: list-instruments has just answered an inactive session whose
\* log store and files still hold what the stopped session left
C10_Witness ==
  /\ ~isActive
  /\ result = Result("list", FALSE, "", 0)
  /\ logStore # << >>
  /\ ~NoMarkers

\* C11: the session controller is inactive or active; a step that takes it
\* from inactive to active is the completion of a start-session that
\* succeeds, a step that takes it from active to inactive is a step of
\* stop-session, and stop-session called while inactive returns a success and
\* changes nothing.
C11_TwoStates ==
  [][/\ (~isActive /\ isActive') =>
          (\E k \in ServerIds : ListenDone(k)) /\ ~result'.isError
     /\ (isActive /\ ~isActive') => (StopCall \/ StopResume)
     /\ (~isActive /\ StopCall) =>
          /\ ~result'.isError
          /\ UNCHANGED <<session, registry, mserver, instrumenter, servers, stops,
                         files, fstatus, logStore, nextId>>]_vars

\* C11 witness: a second session was started and stopped, and the
\* stop-session called after that found the session inactive
C11_Witness ==
  /\ result = Result("stop", FALSE, "no-session", 0)
  /\ \A k \in ServerIds : servers[k].st = "closed"

\* C12: removing again the instruments that a remove-instruments call has
\* just removed is a no-op: no removal throws, none finds a region to delete
\* (removeInstrument returns false), and the files and the registry stay as
\* the first removal left them.
C12_RemoveTwice ==
  [][\A f \in PathArgs \cup {NoPath} :
       (isActive /\ instrumenter # None /\ RemoveInstrumentsCall(f) /\ ~result'.isError) =>
         LET removed == IF f # NoPath THEN getInstrumentsByFile(f) ELSE getInstruments
             again == removeEach(files', fstatus, removed, 0)
         IN /\ again.err = ""
            /\ again.done = Len(removed)
            /\ again.files = files'
            /\ \A i \in 1 .. Len(removed) :
                 removeRegion(files'[removed[i].file], removed[i].id, removed[i].language)
                   = files'[removed[i].file]
            /\ withoutFirst(registry', removed, Len(removed)) = registry']_vars

\* C12 witness: two instruments were removed by one call, and what the first
\* removal left in the file still holds lines of a block
C12_Witness == result = Result("remove", FALSE, "", 2) /\ ~NoMarkers

\* The instruments of the registry whose region is in the file
LiveIn(file) ==
  LET Live(ins) == ins.file = file /\ RegionPresent(ins)
  IN SelectSeq(registry, Live)

\* C13: bulk removal from a file that holds N live instruments returns N,
\* leaves no marker and no body line of a block in the file, and keeps the
\* lines of the program, in order.
C13_BulkRemoval ==
  [][\A f \in AbsPaths :
       RemoveAllCall(f) =>
         /\ ~result'.isError
         /\ result'.n = Len(LiveIn(f))
         /\ TextOf(files'[f]) = files'[f]
         /\ IsPrefix(TextOf(files[f]), files'[f])]_vars

\* The bytes are a complete JSON text
ValidBody(b) ==
  /\ Len(b) >= 2
  /\ b[1].t \in {"open", "bare"}
  /\ b[Len(b)].t = "close"
  /\ SubSeq(b, 2, Len(b) - 1) \in {<< >>, <<Piece("lead", 0), Piece("cont", 0)>>}

\* The entry those bytes post
PostedEntry(b) ==
  [id |-> b[1].id, timestamp |-> b[1].t = "open",
   data |-> IF Len(b) = 2 THEN << >> ELSE <<"char">>]

\* C14: a POST /log whose complete body is not valid JSON is answered 400,
\* the log store stays as it is, and the collector goes on as before.
C14_InvalidJSON ==
  [][\A r \in ReqIds :
       (EndBody(r) /\ ~ValidBody(reqs[r].sent)) =>
         /\ reqs'[r].status = 400
         /\ logStore' = logStore
         /\ servers' = servers]_vars

\* C14 witness: the collector has answered 400 to the first request and,
\* still listening, 200 to the second, whose line is in the log store
C14_Witness ==
  /\ reqs[1].status = 400
  /\ reqs[2].status = 200
  /\ Len(logStore) = 1
  /\ \E k \in ServerIds : servers[k].st = "listening"

\* C15: a POST /log whose complete body is valid JSON is answered 200 and
\* one line is appended to the log store: the posted fields and receivedAt.
C15_ValidJSON ==
  [][\A r \in ReqIds :
       (EndBody(r) /\ ValidBody(reqs[r].sent)) =>
         /\ reqs'[r].status = 200
         /\ logStore' = Append(logStore,
                               [id |-> PostedEntry(reqs[r].sent).id,
                                timestamp |-> PostedEntry(reqs[r].sent).timestamp,
                                data |-> PostedEntry(reqs[r].sent).data,
                                receivedAt |-> TRUE])]_vars

\* C16: a chunk of one request changes neither another request nor the log
\* store; the end of a request changes no other request, appends one line
\* carrying that request's identifier when its own bytes are valid JSON and
\* nothing otherwise; and a request whose body has arrived can be answered
\* whatever the other requests are waiting for.
C16_IndependentRequests ==
  [][/\ \A r \in ReqIds, n \in 1 .. MaxChunk :
          DataChunk(r, n) =>
            /\ logStore' = logStore
            /\ \A q \in ReqIds \ {r} : reqs'[q] = reqs[q]
     /\ \A r \in ReqIds :
          EndBody(r) =>
            /\ \A q \in ReqIds \ {r} : reqs'[q] = reqs[q]
            /\ ValidBody(reqs[r].sent) =>
                 /\ reqs'[r].status = 200
                 /\ Len(logStore') = Len(logStore) + 1
                 /\ SubSeq(logStore', 1, Len(logStore)) = logStore
                 /\ logStore'[Len(logStore')].id = r
            /\ ~ValidBody(reqs[r].sent) => logStore' = logStore
     /\ \A r \in ReqIds :
          (reqs[r].st = "open" /\ reqs[r].todo = << >>) => ENABLED EndBody(r)]_vars

\* C16 witness: the second request was answered 200 while the first, opened
\* before it, has sent a part of its body and not the rest
C16_Witness ==
  /\ reqs[1].st = "open"
  /\ reqs[1].sent # << >>
  /\ reqs[1].todo # << >>
  /\ reqs[2].status = 200
  /\ Len(logStore) = 1

\* C17: a start-session that fails because its port is taken returns a
\* failure and leaves the controller inactive, with no Log Collector kept by
\* the SessionManager and no instrumenter.
C17_PortUnavailable ==
  [][\A k \in ServerIds :
       ListenError(k) =>
         /\ result'.isError
         /\ ~isActive'
         /\ mserver' = None
         /\ instrumenter' = None]_vars

\* C18: the log store gets shorter only in a step of start-session or of
\* clear-logs, and is empty after it; any other step leaves it as it is or
\* appends one line; clear-logs changes neither the registry nor a file.
C18_LogStore ==
  [][/\ Len(logStore') < Len(logStore) =>
          /\ (\E p \in PortArgs : StartCall(p)) \/ ClearLogsCall
          /\ logStore' = << >>
     /\ Len(logStore') >= Len(logStore) =>
          \/ logStore' = logStore
          \/ /\ Len(logStore') = Len(logStore) + 1
             /\ SubSeq(logStore', 1, Len(logStore)) = logStore
     /\ ClearLogsCall => UNCHANGED <<registry, files>>]_vars

\* C18 witness: clear-logs has emptied the log store of a session that has
\* an instrument in a file
C18_Witness ==
  /\ result = Result("clear", FALSE, "", 0)
  /\ logStore = << >>
  /\ registry # << >>
  /\ ~NoMarkers

\* C19: an OPTIONS request is answered 204, GET /health 200 with the port
\* the answering collector listens on, every request that is neither of
\* these nor POST /log 404, and none of these changes the log store, the
\* registry or a file.
C19_OtherRequests ==
  [][\A r \in ReqIds, k \in ServerIds, m \in Methods, u \in Urls :
       \A b \in Bodies(r) :
         Request(r, k, m, u, b) =>
           /\ m = "OPTIONS" => reqs'[r].status = 204
           /\ (m = "GET" /\ u = "/health") =>
                (reqs'[r].status = 200 /\ reqs'[r].reply = servers[k].port)
           /\ (m # "OPTIONS" /\ ~(m = "GET" /\ u = "/health")
                 /\ ~(m = "POST" /\ u = "/log")) => reqs'[r].status = 404
           /\ ~(m = "POST" /\ u = "/log") =>
                (reqs'[r].st = "done" /\ UNCHANGED <<logStore, registry, files>>)]_vars

\* C19 witness: the health probe was answered with the session's port after
\* a posted line and an instrument had been stored
C19_Witness ==
  /\ isActive
  /\ reqs[2].status = 200
  /\ reqs[2].reply = session.port
  /\ logStore # << >>
  /\ registry # << >>
  /\ ~NoMarkers

\* C20: remove-instruments with a file argument takes out of the registry
\* the instruments whose resolved path is the resolved path of the argument,
\* and no others, reports their number, leaves no marker of theirs in that
\* file, and leaves every other file as it is.
C20_RemoveByFile ==
  [][\A f \in PathArgs :
       (isActive /\ instrumenter # None /\ RemoveInstrumentsCall(f)) =>
         LET target == resolve(WorkDir, f)
             Other(i) == i.file # target
             Same(i) == i.file = target
             removed == SelectSeq(registry, Same)
         IN /\ ~result'.isError
            /\ result'.n = Len(removed)
            /\ registry' = SelectSeq(registry, Other)
            /\ \A g \in AbsPaths \ {target} : files'[g] = files[g]
            /\ \A i \in 1 .. Len(removed) :
                 OwnMarkers(files'[target], removed[i].id) = << >>]_vars

\* C21: an insertion at line L that succeeds yields the lines 1..L-1 of the
\* file as they were, then the lines of the generated block, then the lines
\* L..end as they were and in order; the other files are not touched.
C21_Splice ==
  [][\A f \in PathArgs, l \in LineArgs, c \in Captures :
       (AddHandled(f, l, c) /\ ~result'.isError) =>
         LET ins == newInstrument(f, l, c)
             before == files[ins.file]
             after == files'[ins.file]
             block == generateInstrumentCode(instrumenter, ins)
         IN /\ Len(after) = Len(before) + Len(block)
            /\ \A i \in 1 .. l - 1 : after[i] = before[i]
            /\ \A i \in 1 .. Len(block) : after[l - 1 + i] = block[i]
            /\ \A i \in l .. Len(before) : after[i + Len(block)] = before[i]
            /\ \A g \in AbsPaths \ {ins.file} : files'[g] = files[g]]_vars

\* C21 witness: an insertion has just succeeded in a file that held a block
\* already
C21_Witness ==
  /\ result = Result("add", FALSE, "", 0)
  /\ \E f \in AbsPaths :
       LET Start(l) == l.k = "start"
       IN Len(SelectSeq(files[f], Start)) = 2

\* The block of the instrument stands whole in the lines
Complete(ins, ls) ==
  LET block == generateInstrumentCode(instrumenter, ins)
  IN \E i \in 1 .. Len(ls) :
       /\ i + Len(block) - 1 <= Len(ls)
       /\ SubSeq(ls, i, i + Len(block) - 1) = block

\* The regions of a and b are whole, each has its one start and one end
\* marker, and b's start marker is the line after a's end marker
Adjacent(a, b) ==
  /\ a.id # b.id
  /\ a.file = b.file
  /\ Cardinality(StartsOf(a)) = 1 /\ Cardinality(EndsOf(a)) = 1
  /\ Cardinality(StartsOf(b)) = 1 /\ Cardinality(EndsOf(b)) = 1
  /\ Complete(a, files[a.file])
  /\ Complete(b, files[b.file])
  /\ \E i \in EndsOf(a) : i + 1 \in StartsOf(b)

\* What removing the region of `gone` does to the file, seen from `kept`
OnlyRemoves(gone, kept) ==
  LET before == files[gone.file]
      after == removeRegion(before, gone.id, gone.language)
  IN /\ Complete(kept, after)
     /\ OwnMarkers(after, kept.id) = OwnMarkers(before, kept.id)
     /\ OwnMarkers(after, gone.id) = << >>
     /\ TextOf(before) = SubSeq(TextOf(after), 1, Len(TextOf(before)))
     /\ Len(SelectSeq(after, IsBody)) =
          Len(SelectSeq(before, IsBody))
            - (Len(generateInstrumentCode(instrumenter, gone)) - 2)

\* C22: when the regions of two instruments stand one directly after the
\* other, removing either by its identifier deletes that region only: the
\* other region stays whole, with both markers and its body.
C22_AdjacentRegions ==
  \A i, j \in 1 .. Len(registry) :
    (instrumenter # None /\ Adjacent(registry[i], registry[j])) =>
      /\ OnlyRemoves(registry[i], registry[j])
      /\ OnlyRemoves(registry[j], registry[i])

\* C22 witness: two regions stand one directly after the other, the second
\* one at the end of the file
C22_Witness ==
  \E i, j \in 1 .. Len(registry) :
    /\ instrumenter # None
    /\ Adjacent(registry[i], registry[j])
    /\ Len(files[registry[j].file]) \in EndsOf(registry[j])

\* C24: when the registry was changed while a stop-session call waited for
\* its collector to close (an add-instrument call was handled in between),
\* no file holds a marker once that stop-session call completes.
C24_AddDuringStop ==
  [][(StopResume /\ registry # Head(stops).instruments) => NoMarkers']_vars

\* C23: while a session is active read-logs returns the lines of the log
\* store (those the collector has appended since the last start-session or
\* clear-logs, by C18), all of them and in their order, and changes neither
\* the log store, the registry nor a file.
C23_ReadLogs ==
  [][\A fmt \in Formats :
       (isActive /\ ReadLogsCall(fmt)) =>
         /\ ~result'.isError
         /\ readDebugLogs(fmt, logStore).lines = logStore
         /\ result'.n = Len(logStore)
         /\ UNCHANGED <<logStore, registry, files>>]_vars

\* C25: a stop-session call that has begun to wait for its collector to close
\* completes in the end and leaves the controller inactive, also when a
\* client holds a connection open whose body never arrives whole.
C25_StopCompletes == (stops # << >>) ~> (stops = << >> /\ ~isActive)

====
